---- MODULE Spec2Model ----
(***************************************************************************)
(* Model of scripts/build_es_dictionary.py: the merge of the curated       *)
(* Spanish dictionary (words.txt), the FreeLing lexicon (MM.* files) and   *)
(* the doozan frequency list into one word -> Entry mapping.               *)
(*                                                                         *)
(* Text is modelled as a sequence of one-character strings, so that        *)
(* strip(), lower(), startswith(), indexing and Python's code-point        *)
(* comparison of str are computed and not assumed.  The accented vowels    *)
(* are written "a'", "e'", "i'", "o'", "u'" (one character each).          *)
(* The three category-like fields of a record (category, gender, number)   *)
(* are short closed vocabularies and are kept as TLA+ strings; the         *)
(* code-point order Python uses on them is given by CategoryLex and Ord.   *)
(*                                                                         *)
(* build() is modelled from step 3 on: the downloads of steps 1 and 2 only *)
(* provide the files the later steps read, which the actions take as       *)
(* inputs.  The stats counters are diagnostics no decision reads and are   *)
(* left out.  Corpus counts are powers of ten, for which math.log10 and    *)
(* the double-precision quotient of the normalization are exact.           *)
(***************************************************************************)
EXTENDS Integers, Sequences, FiniteSets, TLC

VARIABLES
    pc,                  \* position of build(): which stage has completed
    current_file,        \* lines of data/es/words.txt as read (the curated baseline)
    doozan_file,         \* lines of es_merged_50k.txt as read
    freeling_files,      \* the MM.* files, in sorted name order
    current,             \* Dict[str, Entry] returned by parse_current_dictionary
    doozan_freq,         \* normalized score per word
    doozan_raw,          \* raw count per word
    freeling_candidates, \* ordered dict word -> list of Candidate (association list)
    merged,              \* Dict[str, Entry] built by merge_entries / assign_frequencies
    output,              \* the output file: NoFile until write_output writes it
    backup_path,         \* what write_output returns: "None", "bak" or "stamp.bak"
    exit_code,           \* return value of main(): Running until the run ends
    sel_candidates,      \* argument of a direct call of select_best_candidate
    sel_best,            \* result of that call: <<>> before it, then <<winner>>
    dec_args,            \* arguments of a direct call of parse_freeling_candidate
    dec_result,          \* result of that call: <<>> for None, <<c>> for Candidate c
    dec_files,           \* MM.* files of a run of parse_freeling_files + merge_entries
    dec_by_word,         \* what parse_freeling_files returned for dec_files
    dec_merged           \* what merge_entries made of dec_by_word: <<>> before, then <<final>>

vars == <<pc, current_file, doozan_file, freeling_files, current, doozan_freq,
          doozan_raw, freeling_candidates, merged, output, backup_path,
          exit_code, sel_candidates, sel_best, dec_args, dec_result, dec_files,
          dec_by_word, dec_merged>>

buildVars == <<pc, current_file, doozan_file, freeling_files, current, doozan_freq,
               doozan_raw, freeling_candidates, merged, output, backup_path,
               exit_code>>

selVars == <<sel_candidates, sel_best>>

decVars == <<dec_args, dec_result, dec_files, dec_by_word, dec_merged>>

(***************************************************************************)
(* Bounds of the model                                                     *)
(***************************************************************************)
MaxCurrentLines == 2
MaxDoozanLines == 2
MaxFreelingLines == 2
MaxCandidates == 3
MaxTagHead == 3

(***************************************************************************)
(* Python str primitives                                                   *)
(***************************************************************************)
Range(s) == {s[i] : i \in 1..Len(s)}

IndexIn(c, s) == CHOOSE i \in 1..Len(s) : s[i] = c

Lowercase == <<"a","b","c","d","e","f","g","h","i","j","k","l","m",
               "n","o","p","q","r","s","t","u","v","w","x","y","z">>

Uppercase == <<"A","B","C","D","E","F","G","H","I","J","K","L","M",
               "N","O","P","Q","R","S","T","U","V","W","X","Y","Z">>

Digits == <<"0","1","2","3","4","5","6","7","8","9">>

AccentedVowels == {"a'", "e'", "i'", "o'", "u'"}

LowercaseSet == Range(Lowercase)

UppercaseSet == Range(Uppercase)

DigitSet == Range(Digits)

\* ord(): the Unicode code point of a character
Ord(c) ==
    IF c \in LowercaseSet THEN 96 + IndexIn(c, Lowercase)
    ELSE IF c \in UppercaseSet THEN 64 + IndexIn(c, Uppercase)
    ELSE IF c \in DigitSet THEN 47 + IndexIn(c, Digits)
    ELSE CASE c = "\t" -> 9
           [] c = " "  -> 32
           [] c = "#"  -> 35
           [] c = "+"  -> 43
           [] c = "-"  -> 45
           [] c = "."  -> 46
           [] c = "_"  -> 95
           [] c = "|"  -> 124
           [] c = "a'" -> 225
           [] c = "e'" -> 233
           [] c = "i'" -> 237
           [] c = "o'" -> 243
           [] c = "u'" -> 250

\* str.isspace() of one character
isspace(c) == c \in {" ", "\t"}

\* a < b on str: lexicographic by code point
StrLess(a, b) ==
    LET n == IF Len(a) <= Len(b) THEN Len(a) ELSE Len(b)
        differ == {i \in 1..n : a[i] # b[i]}
    IN  IF differ = {} THEN Len(a) < Len(b)
        ELSE LET i == CHOOSE i \in differ : \A j \in differ : i <= j
             IN  Ord(a[i]) < Ord(b[i])

\* str.lower()
lower(s) ==
    [i \in 1..Len(s) |->
        IF s[i] \in UppercaseSet THEN Lowercase[IndexIn(s[i], Uppercase)]
        ELSE s[i]]

\* str.strip(): drop leading and trailing whitespace
strip(s) ==
    LET nonws == {i \in 1..Len(s) : ~isspace(s[i])}
    IN  IF nonws = {} THEN <<>>
        ELSE LET lo == CHOOSE i \in nonws : \A j \in nonws : i <= j
                 hi == CHOOSE i \in nonws : \A j \in nonws : j <= i
             IN  SubSeq(s, lo, hi)

\* str.startswith()
startswith(s, prefix) ==
    /\ Len(prefix) <= Len(s)
    /\ \A i \in 1..Len(prefix) : s[i] = prefix[i]

\* int(text): text is accepted when it is an optional sign followed by digits
IsIntText(s) ==
    LET t == strip(s)
        body == IF Len(t) > 0 /\ t[1] \in {"+", "-"} THEN Tail(t) ELSE t
    IN  /\ Len(body) > 0
        /\ \A i \in 1..Len(body) : body[i] \in DigitSet

RECURSIVE DigitsValue(_)
DigitsValue(d) ==
    IF Len(d) = 0 THEN 0
    ELSE 10 * DigitsValue(SubSeq(d, 1, Len(d) - 1)) + (IndexIn(d[Len(d)], Digits) - 1)

IntValue(s) ==
    LET t == strip(s)
    IN  IF t[1] = "-" THEN 0 - DigitsValue(Tail(t))
        ELSE IF t[1] = "+" THEN DigitsValue(Tail(t))
        ELSE DigitsValue(t)

Max(a, b) == IF a >= b THEN a ELSE b

Min(a, b) == IF a <= b THEN a ELSE b

\* every sequence over S of length lo..hi
SeqsOf(S, lo, hi) == UNION {[1..n -> S] : n \in lo..hi}

\* the lines of a file at the positions of I, in file order
LinesAt(lines, I) ==
    LET upto[k \in 0..Len(lines)] ==
            IF k = 0 THEN <<>>
            ELSE IF k \in I THEN Append(upto[k - 1], lines[k]) ELSE upto[k - 1]
    IN  upto[Len(lines)]

\* every file made of at most max lines of a longer file, in its order
Excerpts(lines, max) ==
    {LinesAt(lines, I) : I \in {J \in SUBSET (1..Len(lines)) : Cardinality(J) <= max}}

(***************************************************************************)
(* Module constants and data classes                                       *)
(***************************************************************************)
CATEGORY_PRIORITY ==
    [sustantivo |-> 1, adjetivo |-> 2, adverbio |-> 3, articulo |-> 4,
     determinante |-> 5, pronombre |-> 6, preposicion |-> 7, conjuncion |-> 8,
     verbo |-> 9, otro |-> 10]

\* CATEGORY_PRIORITY.get(category, 999)
CategoryPriority(category) ==
    IF category \in DOMAIN CATEGORY_PRIORITY THEN CATEGORY_PRIORITY[category] ELSE 999

\* the category texts of the model in Python's str order ("xyz" stands for a
\* text that is not a key of CATEGORY_PRIORITY)
CategoryLex ==
    <<"adjetivo", "adverbio", "articulo", "conjuncion", "determinante", "otro",
      "preposicion", "pronombre", "sustantivo", "verbo", "xyz">>

Entry(word, category, gender, number, lemma, frequency, source) ==
    [word |-> word, category |-> category, gender |-> gender, number |-> number,
     lemma |-> lemma, frequency |-> frequency, source |-> source]

Candidate(word, lemma, category, gender, number, tag, source_file) ==
    [word |-> word, lemma |-> lemma, category |-> category, gender |-> gender,
     number |-> number, tag |-> tag, source_file |-> source_file]

\* exit_code while main() has not returned
Running == -1

\* a dict with no key
EmptyDict == <<>>

\* the output file before write_output
NoFile == [written |-> FALSE, lines |-> <<>>]

\* d with d[k] = v added or replaced
DictSet(d, k, v) == [w \in DOMAIN d \cup {k} |-> IF w = k THEN v ELSE d[w]]

\* d.get(k, default)
DictGet(d, k, default) == IF k \in DOMAIN d THEN d[k] ELSE default

(***************************************************************************)
(* parse_current_dictionary                                                *)
(* A line of words.txt is given as the list line.split("|", 5) works on:   *)
(* the word, lemma and frequency fields are text, the category, gender and *)
(* number fields are the stripped field ("" when blank).                   *)
(***************************************************************************)
\* the line is skipped: blank, a comment, or no word
CurrentLineSkipped(parts) ==
    \/ Len(parts) = 0
    \/ strip(parts[1]) = <<>>
    \/ startswith(strip(parts[1]), <<"#">>)
    \/ lower(strip(parts[1])) = <<>>

\* the Entry a line that is not skipped yields
ParseCurrentLine(parts) ==
    LET word == IF Len(parts) > 0 THEN lower(strip(parts[1])) ELSE <<>>
        category == IF Len(parts) > 1 /\ parts[2] # "" THEN parts[2] ELSE "otro"
        gender == IF Len(parts) > 2 /\ parts[3] # "" THEN parts[3] ELSE "_"
        number == IF Len(parts) > 3 /\ parts[4] # "" THEN parts[4] ELSE "_"
        lemma == IF Len(parts) > 4 THEN strip(parts[5]) ELSE <<>>
        frequency == IF Len(parts) > 5
                     THEN IF IsIntText(parts[6]) THEN Max(1, IntValue(parts[6])) ELSE 1
                     ELSE 1
    IN  Entry(word, category, gender, number, lemma, frequency, "current")

RECURSIVE ParseCurrentLoop(_, _, _)
ParseCurrentLoop(lines, i, cur) ==
    IF i > Len(lines) THEN cur
    ELSE LET entry == ParseCurrentLine(lines[i])
         IN  IF CurrentLineSkipped(lines[i]) THEN ParseCurrentLoop(lines, i + 1, cur)
             ELSE IF entry.word \in DOMAIN cur
             THEN \* keep the duplicate with the higher frequency
                  IF entry.frequency > cur[entry.word].frequency
                  THEN ParseCurrentLoop(lines, i + 1, DictSet(cur, entry.word, entry))
                  ELSE ParseCurrentLoop(lines, i + 1, cur)
             ELSE ParseCurrentLoop(lines, i + 1, DictSet(cur, entry.word, entry))

parse_current_dictionary(lines) == ParseCurrentLoop(lines, 1, EmptyDict)

(***************************************************************************)
(* load_doozan_frequency                                                   *)
(* A line of the frequency list is given as its parts: <<word, count>>,    *)
(* or fewer than two parts for a bad line.                                 *)
(***************************************************************************)
RECURSIVE LoadDoozanLoop(_, _, _)
LoadDoozanLoop(lines, i, acc) ==
    IF i > Len(lines) THEN acc
    ELSE LET parts == lines[i]
             word == lower(strip(parts[1]))
             skip == LoadDoozanLoop(lines, i + 1, acc)
         IN  IF Len(parts) = 0 \/ startswith(parts[1], <<"#">>) THEN skip
             ELSE IF Len(parts) < 2 THEN skip
             ELSE IF word = <<>> THEN skip
             ELSE IF ~IsIntText(parts[2]) THEN skip
             ELSE LET count == IntValue(parts[2])
                  IN  IF count <= 0 THEN skip
                      ELSE IF word \notin DOMAIN acc.raw_freq \/ count > acc.raw_freq[word]
                      THEN LoadDoozanLoop(lines, i + 1,
                               [raw_freq |-> DictSet(acc.raw_freq, word, count),
                                max_raw |-> Max(acc.max_raw, count)])
                      ELSE skip

LoadDoozanRaw(lines) == LoadDoozanLoop(lines, 1, [raw_freq |-> EmptyDict, max_raw |-> 0])

\* math.log10 on the counts of the model, which are powers of ten: there
\* log10 is an integer and the double arithmetic of the code is exact
log10(n) == CHOOSE k \in 0..9 : 10 ^ k = n

\* a score rounded to the nearest integer instead of truncated
NormalizeRounding(count, max_raw) ==
    IF count <= 1 THEN 1
    ELSE LET denom == log10(max_raw)
             value == (2 * log10(count) * 1000 + denom) \div (2 * denom)
         IN  Max(1, Min(1000, value))

\* the score of one count: int((log10(count) / denom) * 1000), clamped
Normalize(count, max_raw) ==
    IF count <= 1 THEN 1
    ELSE LET denom == log10(max_raw)
             value == (log10(count) * 1000) \div denom
         IN  Max(1, Min(1000, value))

\* load_doozan_frequency raises RuntimeError
DoozanRaises(lines) == LoadDoozanRaw(lines).max_raw <= 0

\* the pair (normalized, raw_freq) load_doozan_frequency returns
load_doozan_frequency(lines) ==
    LET acc == LoadDoozanRaw(lines)
    IN  [normalized |-> [w \in DOMAIN acc.raw_freq |->
                            Normalize(acc.raw_freq[w], acc.max_raw)],
         raw_freq |-> acc.raw_freq]

(***************************************************************************)
(* parse_freeling_candidate, parse_freeling_files                          *)
(* Optional[Candidate] is a sequence: <<>> for None, <<c>> for c.          *)
(***************************************************************************)
\* text[idx] on the 0-based index idx, "" past the end
char_at(text, idx) == IF idx < Len(text) THEN text[idx + 1] ELSE ""

\* str.upper() of one character
upper(c) == IF c \in LowercaseSet THEN Uppercase[IndexIn(c, Lowercase)] ELSE c

map_gender(c) ==
    IF upper(c) = "M" THEN "m"
    ELSE IF upper(c) = "F" THEN "f"
    ELSE "_"

map_number(c) ==
    IF upper(c) = "S" THEN "s"
    ELSE IF upper(c) = "P" THEN "p"
    ELSE "_"

\* tag.startswith(p) for some p of prefixes
StartsWithAny(tag, prefixes) == \E p \in prefixes : startswith(tag, p)

\* a malformed-input test that lets an empty form through
MalformedExceptEmptyForm(form, tag) ==
    tag = <<>> \/ \E i \in 1..Len(form) : isspace(form[i])

\* not form or not tag or any(ch.isspace() for ch in form), on the stripped
\* form and tag
Malformed(form, tag) ==
    form = <<>> \/ tag = <<>> \/ \E i \in 1..Len(form) : isspace(form[i])

\* a verb branch that keeps the conjugated forms as verbs
VerbTagKeepingConjugated(tag) ==
    LET mood == char_at(tag, 2)
    IN  IF mood = "P"
        THEN <<"adjetivo", map_gender(char_at(tag, 6)), map_number(char_at(tag, 5))>>
        ELSE <<"verbo", "_", "_">>

\* the branch of a tag starting with "V": <<category, gender, number>>, or
\* <<>> where the code returns None
VerbTag(tag) ==
    LET mood == char_at(tag, 2)
    IN  IF mood = "N" THEN <<"verbo", "_", "_">>
        ELSE IF mood = "P"
        THEN <<"adjetivo", map_gender(char_at(tag, 6)), map_number(char_at(tag, 5))>>
        ELSE <<>>

parse_freeling_candidate(form0, lemma0, tag0, source_file) ==
    LET form == lower(strip(form0))
        lemma == lower(strip(lemma0))
        tag == strip(tag0)
        verb == VerbTag(tag)
        cand(category, gender, number) ==
            <<Candidate(form, lemma, category, gender, number, tag, source_file)>>
    IN  IF Malformed(form, tag)
        THEN <<>>
        ELSE IF startswith(tag, <<"N","P">>) THEN <<>>
        ELSE IF startswith(tag, <<"N","C">>)
        THEN cand("sustantivo", map_gender(char_at(tag, 2)), map_number(char_at(tag, 3)))
        ELSE IF StartsWithAny(tag, {<<"A","Q">>, <<"A","O">>})
        THEN cand("adjetivo", map_gender(char_at(tag, 3)), map_number(char_at(tag, 4)))
        ELSE IF startswith(tag, <<"D","A">>)
        THEN cand("articulo", map_gender(char_at(tag, 3)), map_number(char_at(tag, 4)))
        ELSE IF StartsWithAny(tag, {<<"D","D">>, <<"D","I">>, <<"D","P">>,
                                    <<"D","T">>, <<"D","E">>})
        THEN cand("determinante", map_gender(char_at(tag, 3)), map_number(char_at(tag, 4)))
        ELSE IF StartsWithAny(tag, {<<"P","P">>, <<"P","D">>, <<"P","R">>,
                                    <<"P","T">>, <<"P","I">>, <<"P","E">>})
        THEN cand("pronombre", map_gender(char_at(tag, 3)), map_number(char_at(tag, 4)))
        ELSE IF startswith(tag, <<"S","P">>) THEN cand("preposicion", "_", "_")
        ELSE IF StartsWithAny(tag, {<<"C","C">>, <<"C","S">>}) THEN cand("conjuncion", "_", "_")
        ELSE IF StartsWithAny(tag, {<<"R","G">>, <<"R","N">>}) THEN cand("adverbio", "_", "_")
        ELSE IF startswith(tag, <<"I">>) THEN cand("otro", "_", "_")
        ELSE IF startswith(tag, <<"V">>)
        THEN IF verb = <<>> THEN <<>> ELSE cand(verb[1], verb[2], verb[3])
        ELSE <<>>

\* by_word.setdefault(word, []).append(cand) on the ordered dict
SetDefaultAppend(by_word, word, cand) ==
    IF \E i \in 1..Len(by_word) : by_word[i].word = word
    THEN [i \in 1..Len(by_word) |->
            IF by_word[i].word = word
            THEN [by_word[i] EXCEPT !.candidates = Append(@, cand)]
            ELSE by_word[i]]
    ELSE Append(by_word, [word |-> word, candidates |-> <<cand>>])

\* the lines of one file; a line is given as line.split(), <<>> when blank
RECURSIVE ParseFreelingLines(_, _, _, _)
ParseFreelingLines(name, lines, i, by_word) ==
    IF i > Len(lines) THEN by_word
    ELSE LET parts == lines[i]
             cand == parse_freeling_candidate(parts[1], parts[2], parts[3], name)
             skip == ParseFreelingLines(name, lines, i + 1, by_word)
         IN  IF Len(parts) = 0 \/ startswith(parts[1], <<"#">>) THEN skip
             ELSE IF Len(parts) < 3 THEN skip
             ELSE IF cand = <<>> THEN skip
             ELSE ParseFreelingLines(name, lines, i + 1,
                      SetDefaultAppend(by_word, cand[1].word, cand[1]))

RECURSIVE ParseFreelingLoop(_, _, _)
ParseFreelingLoop(files, f, by_word) ==
    IF f > Len(files) THEN by_word
    ELSE ParseFreelingLoop(files, f + 1,
             ParseFreelingLines(files[f].name, files[f].lines, 1, by_word))

parse_freeling_files(files) == ParseFreelingLoop(files, 1, <<>>)

(***************************************************************************)
(* select_best_candidate                                                   *)
(***************************************************************************)
\* a key that leaves the lemma out of the tie-break
score_without_lemma(c) ==
    LET specificity == (IF c.gender # "_" THEN 1 ELSE 0) + (IF c.number # "_" THEN 1 ELSE 0)
    IN  <<CategoryPriority(c.category), 0 - specificity, c.category, c.gender,
          c.number, <<>>, c.tag>>

\* a key that prefers the less specific candidate
score_less_specific_first(c) ==
    LET specificity == (IF c.gender # "_" THEN 1 ELSE 0) + (IF c.number # "_" THEN 1 ELSE 0)
    IN  <<CategoryPriority(c.category), specificity, c.category, c.gender,
          c.number, c.lemma, c.tag>>

score(c) ==
    LET specificity == (IF c.gender # "_" THEN 1 ELSE 0) + (IF c.number # "_" THEN 1 ELSE 0)
    IN  <<CategoryPriority(c.category), 0 - specificity, c.category, c.gender,
          c.number, c.lemma, c.tag>>

\* x < y on component i of the score tuple
KeyLess(i, x, y) ==
    CASE i \in {1, 2} -> x < y
      [] i = 3 -> IndexIn(x, CategoryLex) < IndexIn(y, CategoryLex)
      [] i \in {4, 5} -> Ord(x) < Ord(y)
      [] i \in {6, 7} -> StrLess(x, y)

\* ka < kb on score tuples
ScoreLess(ka, kb) ==
    LET differ == {i \in 1..7 : ka[i] # kb[i]}
    IN  /\ differ # {}
        /\ LET i == CHOOSE i \in differ : \A j \in differ : i <= j
           IN  KeyLess(i, ka[i], kb[i])

\* min(candidates, key=score): the first candidate no other one is below
select_best_candidate(candidates) ==
    LET key == [i \in 1..Len(candidates) |-> score(candidates[i])]
        minimal == {i \in 1..Len(candidates) :
                       \A j \in 1..Len(candidates) : ~ScoreLess(key[j], key[i])}
        first == CHOOSE i \in minimal : \A j \in minimal : i <= j
    IN  candidates[first]

(***************************************************************************)
(* is_probable_unaccented_verb_variant, merge_entries                      *)
(***************************************************************************)
accent_map == [a |-> "a'", e |-> "e'", i |-> "i'", o |-> "o'", u |-> "u'"]

\* word[:idx] + repl + word[idx + 1:] on the 1-based position idx
Variant(word, idx) == [word EXCEPT ![idx] = accent_map[word[idx]]]

\* the heuristic without the floor of 2000 on the verb's raw count
is_probable_unaccented_verb_variant_no_floor(word, category, cur, raw) ==
    IF category \notin {"sustantivo", "adjetivo", "adverbio", "otro"} THEN FALSE
    ELSE IF \E i \in 1..Len(word) : word[i] \in AccentedVowels THEN FALSE
    ELSE LET raw_word == DictGet(raw, word, 0)
         IN  \E idx \in 1..Len(word) :
                 /\ word[idx] \in DOMAIN accent_map
                 /\ Variant(word, idx) \in DOMAIN cur
                 /\ cur[Variant(word, idx)].category = "verbo"
                 /\ DictGet(raw, Variant(word, idx), 0) >= raw_word * 5

is_probable_unaccented_verb_variant(word, category, cur, raw) ==
    IF category \notin {"sustantivo", "adjetivo", "adverbio", "otro"} THEN FALSE
    ELSE IF \E i \in 1..Len(word) : word[i] \in AccentedVowels THEN FALSE
    ELSE LET raw_word == DictGet(raw, word, 0)
         IN  \E idx \in 1..Len(word) :
                 /\ word[idx] \in DOMAIN accent_map
                 /\ Variant(word, idx) \in DOMAIN cur
                 /\ cur[Variant(word, idx)].category = "verbo"
                 /\ DictGet(raw, Variant(word, idx), 0) >= Max(2000, raw_word * 5)

\* a conflict that lets the analyzer's candidate replace the curated attributes
FillLemmaOverwriting(entry, best) ==
    [entry EXCEPT !.category = best.category, !.gender = best.gender,
                  !.number = best.number, !.lemma = best.lemma]

\* the word is already in final_entries: category, gender and number are
\* preserved, the lemma is filled only if missing
FillLemma(entry, best) ==
    IF entry.lemma = <<>> /\ best.lemma # <<>>
    THEN [entry EXCEPT !.lemma = best.lemma]
    ELSE entry

\* an infinitive filter that never skips
SkipInfinitiveNever(best, word, doozan_vocab) == FALSE

\* new infinitives are kept only when frequency-backed by doozan
SkipInfinitive(best, word, doozan_vocab) ==
    best.category = "verbo" /\ word \notin doozan_vocab

\* the loop of merge_entries; st.final is final_entries, st.current the
\* caller's dict: final_entries = dict(current) copies the dict and not the
\* Entry objects, so a lemma filled in final_entries is filled in current too
RECURSIVE MergeLoop(_, _, _, _, _)
MergeLoop(by_word, i, st, doozan_vocab, raw) ==
    IF i > Len(by_word) THEN st
    ELSE LET word == by_word[i].word
             best == select_best_candidate(by_word[i].candidates)
         IN  IF word \in DOMAIN st.final
             THEN MergeLoop(by_word, i + 1,
                      [final |-> [st.final EXCEPT ![word] = FillLemma(@, best)],
                       current |-> IF word \in DOMAIN st.current
                                   THEN [st.current EXCEPT ![word] = FillLemma(@, best)]
                                   ELSE st.current],
                      doozan_vocab, raw)
             ELSE IF SkipInfinitive(best, word, doozan_vocab)
             THEN MergeLoop(by_word, i + 1, st, doozan_vocab, raw)
             ELSE IF is_probable_unaccented_verb_variant(word, best.category, st.current, raw)
             THEN MergeLoop(by_word, i + 1, st, doozan_vocab, raw)
             ELSE MergeLoop(by_word, i + 1,
                      [st EXCEPT !.final = DictSet(st.final, word,
                          Entry(word, best.category, best.gender, best.number,
                                best.lemma, 1, "freeling"))],
                      doozan_vocab, raw)

merge_entries(cur, by_word, doozan_vocab, raw) ==
    MergeLoop(by_word, 1, [final |-> cur, current |-> cur], doozan_vocab, raw)

(***************************************************************************)
(* assign_frequencies, validate, write_output                              *)
(***************************************************************************)
\* an assignment that leaves the curated frequency alone
assign_frequencies_keep_curated(entries, freq) ==
    [word \in DOMAIN entries |->
        IF entries[word].source = "current"
        THEN [entries[word] EXCEPT !.frequency = Max(1, entries[word].frequency)]
        ELSE IF word \in DOMAIN freq
        THEN [entries[word] EXCEPT !.frequency = freq[word]]
        ELSE [entries[word] EXCEPT !.frequency = 1]]

\* an assignment whose placeholder for an unbacked inferred word is 0
assign_frequencies_zero_placeholder(entries, freq) ==
    [word \in DOMAIN entries |->
        IF word \in DOMAIN freq
        THEN [entries[word] EXCEPT !.frequency = freq[word]]
        ELSE IF entries[word].source = "freeling"
        THEN [entries[word] EXCEPT !.frequency = 0]
        ELSE [entries[word] EXCEPT !.frequency = Max(1, entries[word].frequency)]]

assign_frequencies(entries, freq) ==
    [word \in DOMAIN entries |->
        IF word \in DOMAIN freq
        THEN [entries[word] EXCEPT !.frequency = freq[word]]
        ELSE IF entries[word].source = "freeling"
        THEN [entries[word] EXCEPT !.frequency = 1]
        ELSE [entries[word] EXCEPT !.frequency = Max(1, entries[word].frequency)]]

agua == <<"a","g","u","a">>

casa == <<"c","a","s","a">>

el == <<"e","l">>

\* the checks of validate; "None" is an attribute that is not checked
checks ==
    <<[word |-> agua, category |-> "sustantivo", gender |-> "f", number |-> "None"],
      [word |-> casa, category |-> "sustantivo", gender |-> "None", number |-> "None"],
      [word |-> el, category |-> "articulo", gender |-> "m", number |-> "s"]>>

\* a validation that only looks for the anchor words
ValidateRaisesOnMissingOnly(entries) ==
    \E i \in 1..Len(checks) : checks[i].word \notin DOMAIN entries

\* validate raises RuntimeError
ValidateRaises(entries) ==
    \E i \in 1..Len(checks) :
        \/ checks[i].word \notin DOMAIN entries
        \/ /\ checks[i].word \in DOMAIN entries
           /\ \/ entries[checks[i].word].category # checks[i].category
              \/ checks[i].gender # "None"
                    /\ entries[checks[i].word].gender # checks[i].gender
              \/ checks[i].number # "None"
                    /\ entries[checks[i].word].number # checks[i].number

\* sorted(keys)
RECURSIVE Sorted(_)
Sorted(keys) ==
    IF keys = {} THEN <<>>
    ELSE LET least == CHOOSE k \in keys : \A other \in keys \ {k} : StrLess(k, other)
         IN  <<least>> \o Sorted(keys \ {least})

\* the records write_output writes after the header, one per word
OutputLines(entries) ==
    LET keys == Sorted(DOMAIN entries)
    IN  [i \in 1..Len(keys) |->
            [word |-> entries[keys[i]].word,
             category |-> entries[keys[i]].category,
             gender |-> entries[keys[i]].gender,
             number |-> entries[keys[i]].number,
             lemma |-> entries[keys[i]].lemma,
             frequency |-> Max(1, entries[keys[i]].frequency)]]

\* the backup write_output makes and returns
BackupPath(path_exists, bak_exists, no_backup) ==
    IF path_exists /\ ~no_backup
    THEN IF bak_exists THEN "stamp.bak" ELSE "bak"
    ELSE "None"

(***************************************************************************)
(* Inputs of the model                                                     *)
(***************************************************************************)
amo == <<"a","m","o">>

amo_acc == <<"a","m","o'">>

amar == <<"a","m","a","r">>

\* a words.txt, each line as split("|", 5) sees it; the files of the model
\* are its excerpts
CurrentLinePalette ==
    <<<<<<"A","g","u","a"," ">>, "sustantivo", "f", "s", agua, <<"5","0","0">>>>,
      <<casa, "sustantivo", "f", "s", <<>>, <<"5","0">>>>,
      <<amo_acc, "verbo", "", "", amar, <<"0">>>>,
      <<casa, "xyz">>,
      <<casa, "sustantivo", "f", "s", casa, <<"9","0","0">>>>>>

\* an es_merged_50k.txt, each line as its two parts
DoozanLinePalette ==
    <<<<amo_acc, <<"1","0","0","0","0">>>>,
      <<amo_acc, <<"1","0","0","0">>>>,
      <<amo, <<"1","0","0","0","0">>>>,
      <<casa, <<"1","0","0">>>>,
      <<el, <<"1">>>>,
      <<agua, <<"0">>>>>>

\* an MM.* file, each line as split() sees it
FreelingLinePalette ==
    <<<<el, el, <<"D","A","0","M","S","0">>>>,
      <<casa, casa, <<"I">>>>,
      <<amo, amo, <<"N","C","M","S","0","0","0">>>>,
      <<amo, amar, <<"V","M","N","0","0","0","0">>>>,
      <<amo_acc, amar, <<"N","C","M","S","0","0","0">>>>>>

CurrentFiles == Excerpts(CurrentLinePalette, MaxCurrentLines)

DoozanFiles == Excerpts(DoozanLinePalette, MaxDoozanLines)

FreelingFiles ==
    {<<[name |-> "MM.nom", lines |-> lines]>> :
        lines \in Excerpts(FreelingLinePalette, MaxFreelingLines)}

\* arguments of a direct call of select_best_candidate: candidates of one
\* word form as parse_freeling_candidate builds them
CandidatePalette ==
    {parse_freeling_candidate(amo, line[1], line[2], line[3])[1] :
        line \in {<<amo, <<"N","C","M","S","0","0","0">>, "MM.nom">>,
                  <<amo, <<"N","C","M","S","0","0","0">>, "MM.adj">>,
                  <<amo, <<"N","C","M","N","0","0","0">>, "MM.nom">>,
                  <<amo, <<"N","C","F","S","0","0","0">>, "MM.nom">>,
                  <<amar, <<"N","C","M","S","0","0","0">>, "MM.nom">>,
                  <<amo, <<"N","C","M","S","0","0","A">>, "MM.nom">>,
                  <<amar, <<"V","M","N","0","0","0","0">>, "MM.vaux">>,
                  <<amo, <<"I">>, "MM.int">>}}

CandidateLists == SeqsOf(CandidatePalette, 1, MaxCandidates)

amas == <<"a","m","a","s">>

amado == <<"a","m","a","d","o">>

ana == <<"a","n","a">>

\* arguments of a direct call of parse_freeling_candidate.  A tag is a head
\* of up to MaxTagHead characters, which holds the prefix and the mood
\* position, followed by a tail that reaches the number and gender
\* positions of a participle
TagHeadAlphabet == {"V", "N", "P", "C", "X", "n", " "}

TagTails ==
    {<<>>, <<"0","0","S","F">>, <<"0","0","P","M">>, <<"0","0","s","0">>}

DecodeTags ==
    {head \o tail : head \in SeqsOf(TagHeadAlphabet, 0, MaxTagHead), tail \in TagTails}

DecodeForms ==
    {amo, <<"A","m","o"," ">>, <<>>, <<" ">>, <<"a"," ","m","o">>}

\* an MM.* file with records the decoder rejects among those it accepts
DecodeLinePalette ==
    <<<<amo, amo, <<"N","C","M","S","0","0","0">>>>,
      <<ana, ana, <<"N","P","0","0","0","0","0">>>>,
      <<amo, amar, <<"V","M","I","P","1","S","0">>>>,
      <<amas, amar, <<"V","M","I","P","2","S","0">>>>,
      <<casa, casa, <<"Z">>>>,
      <<amar, amar, <<"V","M","N","0","0","0","0">>>>,
      <<amado, amar, <<"V","M","P","0","0","S","M">>>>>>

DecodeFiles ==
    {<<[name |-> "MM.vaux", lines |-> lines]>> :
        lines \in Excerpts(DecodeLinePalette, MaxFreelingLines)}

\* a frequency list that holds every form of DecodeLinePalette
DecodeCorpus ==
    [i \in 1..Len(DecodeLinePalette) |-> <<DecodeLinePalette[i][1], <<"1","0">>>>]

(***************************************************************************)
(* build(): one action per stage                                           *)
(***************************************************************************)
Init ==
    /\ pc = "start"
    /\ current_file = <<>>
    /\ doozan_file = <<>>
    /\ freeling_files = <<>>
    /\ current = EmptyDict
    /\ doozan_freq = EmptyDict
    /\ doozan_raw = EmptyDict
    /\ freeling_candidates = <<>>
    /\ merged = EmptyDict
    /\ output = NoFile
    /\ backup_path = "None"
    /\ exit_code = Running
    /\ sel_candidates = <<>>
    /\ sel_best = <<>>
    /\ dec_args = <<>>
    /\ dec_result = <<>>
    /\ dec_files = <<>>
    /\ dec_by_word = <<>>
    /\ dec_merged = <<>>

\* 3) Load current dictionary
ParseCurrentDictionary ==
    /\ pc = "start"
    /\ \E lines \in CurrentFiles :
        /\ current_file' = lines
        /\ current' = parse_current_dictionary(lines)
    /\ pc' = "current"
    /\ UNCHANGED <<doozan_file, freeling_files, doozan_freq, doozan_raw,
                   freeling_candidates, merged, output, backup_path, exit_code>>
    /\ UNCHANGED selVars
    /\ UNCHANGED decVars

\* 4) Frequencies; the RuntimeError ends main() with 1
LoadDoozanFrequency ==
    /\ pc = "current"
    /\ \E lines \in DoozanFiles :
        /\ doozan_file' = lines
        /\ IF DoozanRaises(lines)
           THEN /\ pc' = "exit"
                /\ exit_code' = 1
                /\ UNCHANGED <<doozan_freq, doozan_raw>>
           ELSE /\ pc' = "doozan"
                /\ doozan_freq' = load_doozan_frequency(lines).normalized
                /\ doozan_raw' = load_doozan_frequency(lines).raw_freq
                /\ UNCHANGED exit_code
    /\ UNCHANGED <<current_file, freeling_files, current, freeling_candidates,
                   merged, output, backup_path>>
    /\ UNCHANGED selVars
    /\ UNCHANGED decVars

\* 5) Parse FreeLing
ParseFreelingFiles ==
    /\ pc = "doozan"
    /\ \E files \in FreelingFiles :
        /\ freeling_files' = files
        /\ freeling_candidates' = parse_freeling_files(files)
    /\ pc' = "freeling"
    /\ UNCHANGED <<current_file, doozan_file, current, doozan_freq, doozan_raw,
                   merged, output, backup_path, exit_code>>
    /\ UNCHANGED selVars
    /\ UNCHANGED decVars

\* 6) Merge (current wins)
MergeEntries ==
    /\ pc = "freeling"
    /\ LET st == merge_entries(current, freeling_candidates, DOMAIN doozan_freq, doozan_raw)
       IN  /\ merged' = st.final
           /\ current' = st.current
    /\ pc' = "merged"
    /\ UNCHANGED <<current_file, doozan_file, freeling_files, doozan_freq, doozan_raw,
                   freeling_candidates, output, backup_path, exit_code>>
    /\ UNCHANGED selVars
    /\ UNCHANGED decVars

\* assign_frequencies updates the Entry objects in place: those of the
\* curated words are the objects current holds
AssignFrequencies ==
    /\ pc = "merged"
    /\ merged' = assign_frequencies(merged, doozan_freq)
    /\ current' = [w \in DOMAIN current |-> assign_frequencies(merged, doozan_freq)[w]]
    /\ pc' = "assigned"
    /\ UNCHANGED <<current_file, doozan_file, freeling_files, doozan_freq, doozan_raw,
                   freeling_candidates, output, backup_path, exit_code>>
    /\ UNCHANGED selVars
    /\ UNCHANGED decVars

\* 7) Validation; the RuntimeError ends main() with 1
Validate ==
    /\ pc = "assigned"
    /\ IF ValidateRaises(merged)
       THEN pc' = "exit" /\ exit_code' = 1
       ELSE pc' = "validated" /\ UNCHANGED exit_code
    /\ UNCHANGED <<current_file, doozan_file, freeling_files, current, doozan_freq,
                   doozan_raw, freeling_candidates, merged, output, backup_path>>
    /\ UNCHANGED selVars
    /\ UNCHANGED decVars

\* 8) Write output + backup, print_stats, return 0
WriteOutput ==
    /\ pc = "validated"
    /\ \E dry_run \in BOOLEAN, path_exists \in BOOLEAN, bak_exists \in BOOLEAN,
          no_backup \in BOOLEAN :
        IF dry_run
        THEN UNCHANGED <<output, backup_path>>
        ELSE /\ output' = [written |-> TRUE, lines |-> OutputLines(merged)]
             /\ backup_path' = BackupPath(path_exists, bak_exists, no_backup)
    /\ pc' = "exit"
    /\ exit_code' = 0
    /\ UNCHANGED <<current_file, doozan_file, freeling_files, current, doozan_freq,
                   doozan_raw, freeling_candidates, merged>>
    /\ UNCHANGED selVars
    /\ UNCHANGED decVars

Next ==
    \/ ParseCurrentDictionary
    \/ LoadDoozanFrequency
    \/ ParseFreelingFiles
    \/ MergeEntries
    \/ AssignFrequencies
    \/ Validate
    \/ WriteOutput

Spec == Init /\ [][Next]_vars

(***************************************************************************)
(* A direct call of select_best_candidate                                  *)
(***************************************************************************)
SelectBestCandidate ==
    /\ sel_best = <<>>
    /\ \E candidates \in CandidateLists :
        /\ sel_candidates' = candidates
        /\ sel_best' = <<select_best_candidate(candidates)>>
    /\ UNCHANGED buildVars
    /\ UNCHANGED decVars

NextSelect == SelectBestCandidate

SpecSelect == Init /\ [][NextSelect]_vars

(***************************************************************************)
(* The tag decoder: a direct call of parse_freeling_candidate, and a run   *)
(* of steps 5 and 6 of build() on an empty words.txt                       *)
(***************************************************************************)
ParseFreelingCandidate ==
    /\ dec_args = <<>>
    /\ dec_files = <<>>
    /\ \E form \in DecodeForms, tag \in DecodeTags :
        /\ dec_args' = <<form, amar, tag, "MM.vaux">>
        /\ dec_result' = parse_freeling_candidate(form, amar, tag, "MM.vaux")
    /\ UNCHANGED <<dec_files, dec_by_word, dec_merged>>
    /\ UNCHANGED buildVars
    /\ UNCHANGED selVars

ParseAndMergeFreeling ==
    /\ dec_args = <<>>
    /\ dec_files = <<>>
    /\ \E files \in DecodeFiles :
        LET by_word == parse_freeling_files(files)
            doozan == load_doozan_frequency(DecodeCorpus)
        IN  /\ dec_files' = files
            /\ dec_by_word' = by_word
            /\ dec_merged' = <<merge_entries(parse_current_dictionary(<<>>), by_word,
                                             DOMAIN doozan.normalized, doozan.raw_freq).final>>
    /\ UNCHANGED <<dec_args, dec_result>>
    /\ UNCHANGED buildVars
    /\ UNCHANGED selVars

NextDecode ==
    \/ ParseFreelingCandidate
    \/ ParseAndMergeFreeling

SpecDecode == Init /\ [][NextDecode]_vars

(***************************************************************************)
(* Properties                                                              *)
(***************************************************************************)
\* the curated baseline as loaded, before merge_entries touches it
Curated0 == parse_current_dictionary(current_file)

\* merge_entries has returned
AfterMerge == freeling_files # <<>> /\ pc \in {"merged", "assigned", "validated", "exit"}

\* assign_frequencies has returned
AfterAssign == freeling_files # <<>> /\ pc \in {"assigned", "validated", "exit"}

\* the best candidate of every word the analyzer offers
BestOf == [i \in 1..Len(freeling_candidates) |->
              select_best_candidate(freeling_candidates[i].candidates)]

\* only the lemma may differ from the curated input, from empty to non-empty
LemmaKeptOrFilled(cur0, w) ==
    \/ merged[w].lemma = cur0[w].lemma
    \/ cur0[w].lemma = <<>> /\ merged[w].lemma # <<>>

\* C1 as stated: after merge_entries and assign_frequencies every curated
\* word is in the output with the curated category, gender, number and
\* frequency; only the lemma may change, from empty to non-empty.
C1_CuratedPrecedenceWithFrequency ==
    LET cur0 == Curated0
        best == BestOf
    IN
    AfterAssign =>
        \A w \in DOMAIN cur0 :
            /\ w \in DOMAIN merged
            /\ merged[w].category = cur0[w].category
            /\ merged[w].gender = cur0[w].gender
            /\ merged[w].number = cur0[w].number
            /\ merged[w].frequency = cur0[w].frequency
            /\ LemmaKeptOrFilled(cur0, w)

\* C1 amended: after merge_entries and assign_frequencies every curated
\* word is in the output with the curated category, gender and number; its
\* frequency is the corpus-normalized score when the word is in the
\* frequency corpus and otherwise the curated one (at least 1); only the
\* lemma may otherwise change, from empty to non-empty.
C1_CuratedPrecedence ==
    LET cur0 == Curated0
        best == BestOf
    IN
    AfterAssign =>
        \A w \in DOMAIN cur0 :
            /\ w \in DOMAIN merged
            /\ merged[w].category = cur0[w].category
            /\ merged[w].gender = cur0[w].gender
            /\ merged[w].number = cur0[w].number
            /\ merged[w].frequency =
                   IF w \in DOMAIN doozan_freq THEN doozan_freq[w]
                   ELSE Max(1, cur0[w].frequency)
            /\ LemmaKeptOrFilled(cur0, w)

\* a curated word with an empty lemma met a competing analysis of another
\* category, had its lemma filled, and took its frequency from the corpus
C1_Witness ==
    LET cur0 == Curated0
        best == BestOf
    IN
    /\ AfterAssign
    /\ \E i \in 1..Len(freeling_candidates) :
        LET w == freeling_candidates[i].word
        IN  /\ w \in DOMAIN cur0
            /\ best[i].category # cur0[w].category
            /\ cur0[w].lemma = <<>>
            /\ merged[w].lemma = best[i].lemma
            /\ merged[w].lemma # <<>>
            /\ w \in DOMAIN doozan_freq
            /\ doozan_freq[w] # cur0[w].frequency

\* C2: after assign_frequencies a word of the final mapping that is in the
\* corpus has the normalized score, an inferred word absent from the corpus
\* has 1, a curated word absent from the corpus keeps its curated frequency
\* (at least 1).
C2_FinalFrequencies ==
    LET cur0 == Curated0
        best == BestOf
    IN
    AfterAssign =>
        \A w \in DOMAIN merged :
            IF w \in DOMAIN doozan_raw
            THEN merged[w].frequency = doozan_freq[w]
            ELSE IF w \in DOMAIN cur0
            THEN merged[w].frequency = Max(1, cur0[w].frequency)
            ELSE merged[w].frequency = 1

\* the four cases in one run: curated and inferred words, in and out of the corpus
C2_Witness ==
    LET cur0 == Curated0
        best == BestOf
    IN
    /\ AfterAssign
    /\ \E w \in DOMAIN cur0 :
          w \in DOMAIN doozan_raw /\ doozan_freq[w] # cur0[w].frequency
    /\ \E w \in DOMAIN cur0 : w \notin DOMAIN doozan_raw
    /\ \E w \in DOMAIN merged \ DOMAIN cur0 :
          w \in DOMAIN doozan_raw /\ merged[w].frequency = doozan_freq[w]
    /\ \E w \in DOMAIN merged \ DOMAIN cur0 : w \notin DOMAIN doozan_raw

\* C3: a word outside the curated baseline whose best candidate is a verb
\* enters the final mapping only if it is in the corpus vocabulary; no
\* inferred verb of the final mapping is absent from the corpus.
C3_UnsupportedInfinitive ==
    LET cur0 == Curated0
        best == BestOf
    IN
    AfterMerge =>
        /\ \A i \in 1..Len(freeling_candidates) :
              LET w == freeling_candidates[i].word
              IN  (w \notin DOMAIN cur0 /\ best[i].category = "verbo"
                      /\ w \in DOMAIN merged)
                  => w \in DOMAIN doozan_raw
        /\ \A w \in DOMAIN merged :
              (merged[w].source = "freeling" /\ merged[w].category = "verbo")
                  => w \in DOMAIN doozan_raw

\* an infinitive outside the curated baseline and outside the corpus was dropped
C3_Witness ==
    LET cur0 == Curated0
        best == BestOf
    IN
    /\ AfterMerge
    /\ \E i \in 1..Len(freeling_candidates) :
        LET w == freeling_candidates[i].word
        IN  /\ w \notin DOMAIN cur0
            /\ best[i].category = "verbo"
            /\ w \notin DOMAIN doozan_raw
            /\ w \notin DOMAIN merged

\* the accented counterpart of a bare vowel
Accented(ch) ==
    CASE ch = "a" -> "a'" [] ch = "e" -> "e'" [] ch = "i" -> "i'"
      [] ch = "o" -> "o'" [] ch = "u" -> "u'"

\* raw corpus count, an absent word counting as 0
RawCount(w) == IF w \in DOMAIN doozan_raw THEN doozan_raw[w] ELSE 0

\* some position of w holds a bare vowel whose accented replacement gives a
\* curated verb with a raw count of at least max(2000, 5 * raw count of w)
HasDominantAccentedVerb(cur0, w) ==
    \E idx \in 1..Len(w) :
        /\ w[idx] \in {"a", "e", "i", "o", "u"}
        /\ LET v == [k \in 1..Len(w) |-> IF k = idx THEN Accented(w[k]) ELSE w[k]]
           IN  /\ v \in DOMAIN cur0
               /\ cur0[v].category = "verbo"
               /\ RawCount(v) >= 2000
               /\ RawCount(v) >= 5 * RawCount(w)

HasAccent(w) == \E k \in 1..Len(w) : w[k] \in {"a'", "e'", "i'", "o'", "u'"}

\* C4: an inferred word whose best candidate is a noun, adjective, adverb or
\* other and whose form has no accented vowel is dropped exactly when an
\* accented variant is a curated verb with a dominant raw count; a word of
\* another category, or with an accented vowel, is not dropped by this filter.
C4_AccentStrippedTypo ==
    LET cur0 == Curated0
        best == BestOf
    IN
    AfterMerge =>
        \A i \in 1..Len(freeling_candidates) :
            LET w == freeling_candidates[i].word
            IN  w \notin DOMAIN cur0 =>
                    IF best[i].category \in {"sustantivo", "adjetivo", "adverbio", "otro"}
                          /\ ~HasAccent(w)
                    THEN (w \notin DOMAIN merged) <=> HasDominantAccentedVerb(cur0, w)
                    ELSE (w \notin DOMAIN merged) =>
                             (best[i].category = "verbo" /\ w \notin DOMAIN doozan_raw)

\* an unaccented inferred noun was dropped for a dominant curated accented verb
C4_Witness ==
    LET cur0 == Curated0
        best == BestOf
    IN
    /\ AfterMerge
    /\ \E i \in 1..Len(freeling_candidates) :
        LET w == freeling_candidates[i].word
        IN  /\ w \notin DOMAIN cur0
            /\ best[i].category = "sustantivo"
            /\ ~HasAccent(w)
            /\ HasDominantAccentedVerb(cur0, w)
            /\ w \notin DOMAIN merged

\* every reordering of a list of n elements
ReorderingsOf ==
    [n \in 1..MaxCandidates |->
        {p \in [1..n -> 1..n] : \A i, j \in 1..n : p[i] = p[j] => i = j}]

Reorderings(n) == ReorderingsOf[n]

Permute(list, p) == [i \in 1..Len(list) |-> list[p[i]]]

\* a candidate without its provenance
WithoutSourceFile(c) ==
    [word |-> c.word, lemma |-> c.lemma, category |-> c.category,
     gender |-> c.gender, number |-> c.number, tag |-> c.tag]

\* C5 as stated: select_best_candidate returns the same Candidate, source_file
\* included, for every presentation order of the candidates.
C5_SelectionPurityWithSourceFile ==
    sel_best # <<>> =>
        \A p \in Reorderings(Len(sel_candidates)) :
            select_best_candidate(Permute(sel_candidates, p)) = sel_best[1]

\* C5 amended: select_best_candidate returns a winner with the same word,
\* lemma, category, gender, number and tag for every presentation order; its
\* source_file is not part of the selection key and may differ.
C5_SelectionPurity ==
    sel_best # <<>> =>
        \A p \in Reorderings(Len(sel_candidates)) :
            WithoutSourceFile(select_best_candidate(Permute(sel_candidates, p)))
                = WithoutSourceFile(sel_best[1])

\* the winner was not presented first and differs from the first in more than provenance
C5_Witness ==
    /\ sel_best # <<>>
    /\ Len(sel_candidates) >= 2
    /\ sel_best[1] # sel_candidates[1]
    /\ WithoutSourceFile(sel_best[1]) # WithoutSourceFile(sel_candidates[1])

\* the category order the selection is to follow
ClaimedCategoryOrder ==
    <<"sustantivo", "adjetivo", "adverbio", "articulo", "determinante",
      "pronombre", "preposicion", "conjuncion", "verbo", "otro">>

ClaimedRank(c) == IndexIn(c.category, ClaimedCategoryOrder)

\* 0 when gender and number are both specified, 1 when one is, 2 when neither
Unspecified(c) == (IF c.gender = "_" THEN 1 ELSE 0) + (IF c.number = "_" THEN 1 ELSE 0)

\* a before b comparing category, gender, number, lemma, tag in that order
TieBreakBefore(a, b) ==
    \/ IndexIn(a.category, CategoryLex) < IndexIn(b.category, CategoryLex)
    \/ /\ a.category = b.category
       /\ \/ Ord(a.gender) < Ord(b.gender)
          \/ /\ a.gender = b.gender
             /\ \/ Ord(a.number) < Ord(b.number)
                \/ /\ a.number = b.number
                   /\ \/ StrLess(a.lemma, b.lemma)
                      \/ a.lemma = b.lemma /\ StrLess(a.tag, b.tag)

StrictlyBetter(a, b) ==
    \/ ClaimedRank(a) < ClaimedRank(b)
    \/ /\ ClaimedRank(a) = ClaimedRank(b)
       /\ \/ Unspecified(a) < Unspecified(b)
          \/ Unspecified(a) = Unspecified(b) /\ TieBreakBefore(a, b)

\* C6: select_best_candidate returns one member of the list, and no member
\* of the list is strictly better under category rank, then specificity,
\* then the lexicographic tie-break.
C6_SelectionOrder ==
    sel_best # <<>> =>
        /\ Len(sel_best) = 1
        /\ \E i \in 1..Len(sel_candidates) : sel_candidates[i] = sel_best[1]
        /\ \A i \in 1..Len(sel_candidates) : ~StrictlyBetter(sel_candidates[i], sel_best[1])

\* the winner beat one rival on category rank and another on specificity
C6_Witness ==
    /\ sel_best # <<>>
    /\ \E i \in 1..Len(sel_candidates) :
          ClaimedRank(sel_best[1]) < ClaimedRank(sel_candidates[i])
    /\ \E i \in 1..Len(sel_candidates) :
          /\ ClaimedRank(sel_best[1]) = ClaimedRank(sel_candidates[i])
          /\ Unspecified(sel_best[1]) < Unspecified(sel_candidates[i])

\* the corpus file has a line with a word and a positive count
HasPositiveCount(lines) ==
    \E i \in 1..Len(lines) :
        /\ Len(lines[i]) >= 2
        /\ strip(lines[i][1]) # <<>>
        /\ lines[i][1][1] # "#"
        /\ IsIntText(lines[i][2])
        /\ IntValue(lines[i][2]) > 0

\* agua is a feminine noun, casa a noun, el a masculine singular article
AnchorsAsExpected(entries) ==
    /\ {agua, casa, el} \subseteq DOMAIN entries
    /\ entries[agua].category = "sustantivo" /\ entries[agua].gender = "f"
    /\ entries[casa].category = "sustantivo"
    /\ entries[el].category = "articulo" /\ entries[el].gender = "m"
    /\ entries[el].number = "s"

\* C7: the output is written only in a run whose corpus had a positive count
\* and whose anchors validated; a run without a positive count, or with a
\* missing or mismatched anchor, ends with a non-zero exit and no output.
C7_FatalWritesNothing ==
    /\ output.written =>
          HasPositiveCount(doozan_file) /\ AnchorsAsExpected(merged)
    /\ (pc = "exit" /\ (~HasPositiveCount(doozan_file) \/ ~AnchorsAsExpected(merged)))
          => (exit_code = 1 /\ ~output.written)

\* a run whose anchors are all present, one of them mismatched, ended in error
C7_Witness ==
    /\ pc = "exit"
    /\ exit_code = 1
    /\ ~output.written
    /\ HasPositiveCount(doozan_file)
    /\ {agua, casa, el} \subseteq DOMAIN merged
    /\ ~AnchorsAsExpected(merged)

\* C8: every entry of the final mapping has one of the ten recognized categories.
C8_ClosedCategorySet ==
    AfterMerge =>
        \A w \in DOMAIN merged : merged[w].category \in Range(ClaimedCategoryOrder)

\* C9: every entry of the final mapping has a frequency of at least 1, and
\* every normalized score lies in 1..1000.
C9_FrequencyBounds ==
    /\ AfterAssign => \A w \in DOMAIN merged : merged[w].frequency \in Nat \ {0}
    /\ \A w \in DOMAIN doozan_freq : doozan_freq[w] \in 1..1000

\* a curated frequency below 1, an inferred word without corpus backing, and
\* the scores 1 and 1000 in one run
C9_Witness ==
    /\ AfterAssign
    /\ \E i \in 1..Len(current_file) :
          /\ Len(current_file[i]) = 6
          /\ IsIntText(current_file[i][6])
          /\ IntValue(current_file[i][6]) < 1
          /\ merged[lower(strip(current_file[i][1]))].frequency = 1
    /\ \E w \in DOMAIN merged :
          merged[w].source = "freeling" /\ w \notin DOMAIN doozan_freq
    /\ \E w \in DOMAIN doozan_freq : doozan_freq[w] = 1000
    /\ \E w \in DOMAIN doozan_freq : doozan_freq[w] = 1

\* M, the maximum raw count of the corpus
MaxRawCount ==
    CHOOSE m \in {doozan_raw[w] : w \in DOMAIN doozan_raw} :
        \A w \in DOMAIN doozan_raw : doozan_raw[w] <= m

Clamp(v, lo, hi) == IF v < lo THEN lo ELSE IF v > hi THEN hi ELSE v

\* n / d rounded to the nearest integer, n >= 0 and d > 0
RoundDiv(n, d) == (2 * n + d) \div (2 * d)

\* C10 as stated: a count c > 1 scores clamp(round(1000 * log10(c) / log10(M)),
\* 1, 1000), rounding to the nearest integer; a count of 1 scores 1.
C10_NormalizationRounds ==
    \A w \in DOMAIN doozan_raw :
        doozan_freq[w] =
            IF doozan_raw[w] <= 1 THEN 1
            ELSE Clamp(RoundDiv(1000 * log10(doozan_raw[w]), log10(MaxRawCount)), 1, 1000)

\* C10 amended: a count c > 1 scores clamp(int(1000 * (log10(c) / log10(M))),
\* 1, 1000), the quotient being truncated and not rounded; a count of 1
\* scores 1, a count equal to M > 1 scores 1000, and with M = 1 every word
\* is scored without a division.
C10_NormalizationTruncates ==
    /\ DOMAIN doozan_freq = DOMAIN doozan_raw
    /\ \A w \in DOMAIN doozan_raw :
        /\ doozan_freq[w] =
              IF doozan_raw[w] <= 1 THEN 1
              ELSE Clamp((1000 * log10(doozan_raw[w])) \div log10(MaxRawCount), 1, 1000)
        /\ (doozan_raw[w] = MaxRawCount /\ MaxRawCount > 1) => doozan_freq[w] = 1000
        /\ doozan_raw[w] = 1 => doozan_freq[w] = 1

\* a count strictly between 1 and M whose quotient is not an integer
C10_Witness ==
    \E w \in DOMAIN doozan_raw :
        /\ doozan_raw[w] > 1
        /\ doozan_raw[w] < MaxRawCount
        /\ (1000 * log10(doozan_raw[w])) % log10(MaxRawCount) # 0
        /\ doozan_freq[w] = (1000 * log10(doozan_raw[w])) \div log10(MaxRawCount)

(***************************************************************************)
(* The tag decoder                                                         *)
(***************************************************************************)
\* parse_freeling_candidate has returned from the direct call
Decoded == dec_args # <<>>

\* the form and the tag of the direct call as the decoder sees them
DecodedForm == lower(strip(dec_args[1]))

DecodedTag == strip(dec_args[3])

\* parse_freeling_files and merge_entries have returned
Inferred == dec_files # <<>>

\* the character of a tag at a 0-based position, "" where the tag is too short
TagChar(tag, idx) == IF idx + 1 <= Len(tag) THEN tag[idx + 1] ELSE ""

ClaimedGender(c) == IF c \in {"M", "m"} THEN "m" ELSE IF c \in {"F", "f"} THEN "f" ELSE "_"

ClaimedNumber(c) == IF c \in {"S", "s"} THEN "s" ELSE IF c \in {"P", "p"} THEN "p" ELSE "_"

\* a form the decoder does not give up on
WellFormedForm(form) == form # <<>> /\ \A i \in 1..Len(form) : form[i] \notin {" ", "\t"}

\* a tag of a finite (conjugated) verb form: prefix V, mood neither N nor P
ConjugatedTag(tag) == TagChar(tag, 0) = "V" /\ TagChar(tag, 2) \notin {"N", "P"}

\* C11: for a tag starting with "V" (and a form that is not malformed),
\* parse_freeling_candidate yields a verbo with gender and number "_" when
\* the character at index 2 is "N", an adjetivo with the number of index 5
\* and the gender of index 6 when it is "P", and None for every other mood,
\* a tag too short to have one included; no candidate of
\* parse_freeling_files carries a conjugated tag, and a form whose records
\* are all conjugated is no entry of the merge
C11_VerbTagsByMood ==
    /\ (Decoded /\ WellFormedForm(DecodedForm) /\ TagChar(DecodedTag, 0) = "V") =>
            LET mood == TagChar(DecodedTag, 2)
            IN  IF mood = "N"
                THEN /\ Len(dec_result) = 1
                     /\ dec_result[1].category = "verbo"
                     /\ dec_result[1].gender = "_"
                     /\ dec_result[1].number = "_"
                ELSE IF mood = "P"
                THEN /\ Len(dec_result) = 1
                     /\ dec_result[1].category = "adjetivo"
                     /\ dec_result[1].number = ClaimedNumber(TagChar(DecodedTag, 5))
                     /\ dec_result[1].gender = ClaimedGender(TagChar(DecodedTag, 6))
                ELSE dec_result = <<>>
    /\ Inferred =>
            LET lines == dec_files[1].lines
            IN  /\ \A i \in 1..Len(dec_by_word) :
                    \A j \in 1..Len(dec_by_word[i].candidates) :
                        ~ConjugatedTag(dec_by_word[i].candidates[j].tag)
                /\ \A i \in 1..Len(lines) :
                    (\A k \in 1..Len(lines) :
                        lines[k][1] = lines[i][1] => ConjugatedTag(lines[k][3]))
                    => lines[i][1] \notin DOMAIN dec_merged[1]

\* a participle tag decoded to a feminine singular adjetivo
C11_Witness ==
    /\ Decoded
    /\ WellFormedForm(DecodedForm)
    /\ TagChar(DecodedTag, 0) = "V"
    /\ TagChar(DecodedTag, 2) = "P"
    /\ Len(dec_result) = 1
    /\ dec_result[1].category = "adjetivo"
    /\ dec_result[1].number = "s"
    /\ dec_result[1].gender = "f"

\* the prefixes the decoder has a category for
KnownPrefixes ==
    {<<"N","C">>, <<"A","Q">>, <<"A","O">>, <<"D","A">>, <<"D","D">>, <<"D","I">>,
     <<"D","P">>, <<"D","T">>, <<"D","E">>, <<"P","P">>, <<"P","D">>, <<"P","R">>,
     <<"P","T">>, <<"P","I">>, <<"P","E">>, <<"S","P">>, <<"C","C">>, <<"C","S">>,
     <<"R","G">>, <<"R","N">>, <<"I">>, <<"V">>}

HasPrefix(tag, p) == Len(p) <= Len(tag) /\ \A i \in 1..Len(p) : tag[i] = p[i]

ProperNounTag(tag) == HasPrefix(tag, <<"N","P">>)

UnknownTag(tag) == \A p \in KnownPrefixes : ~HasPrefix(tag, p)

\* whitespace inside a stripped text
EmbeddedWhitespace(text) == \E i \in 1..Len(text) : text[i] \in {" ", "\t"}

\* a record of an MM.* file the claim has rejected
RejectedRecord(line) == ProperNounTag(line[3]) \/ UnknownTag(line[3])

\* a record the decoder turns into a candidate
AcceptedRecord(line) == ~RejectedRecord(line) /\ ~ConjugatedTag(line[3])

\* the candidates parse_freeling_files returned for a form
CandidatesOf(form) ==
    UNION {Range(dec_by_word[i].candidates) :
              i \in {k \in 1..Len(dec_by_word) : dec_by_word[k].word = form}}

\* the records after a rejected one are processed, and a rejected record
\* leaves no candidate and no entry
RejectedRecordsContributeNothing ==
    Inferred =>
        LET lines == dec_files[1].lines
        IN  \A i \in 1..Len(lines) :
                /\ RejectedRecord(lines[i]) =>
                    /\ \A c \in CandidatesOf(lines[i][1]) : c.tag # lines[i][3]
                    /\ (\A k \in 1..Len(lines) :
                            lines[k][1] = lines[i][1] => ~AcceptedRecord(lines[k]))
                       => lines[i][1] \notin DOMAIN dec_merged[1]
                /\ AcceptedRecord(lines[i]) =>
                    /\ \E c \in CandidatesOf(lines[i][1]) : c.tag = lines[i][3]
                    /\ lines[i][1] \in DOMAIN dec_merged[1]

\* C12 as stated: parse_freeling_candidate returns None for every tag with
\* prefix NP, every tag that matches no known prefix, an empty form, an empty
\* tag and a tag containing embedded whitespace; the records after a
\* rejected one are processed and the rejected record contributes nothing to
\* the mapping
C12_SilentRejection ==
    /\ (Decoded /\ (\/ ProperNounTag(DecodedTag)
                    \/ UnknownTag(DecodedTag)
                    \/ DecodedForm = <<>>
                    \/ DecodedTag = <<>>
                    \/ EmbeddedWhitespace(DecodedTag)))
            => dec_result = <<>>
    /\ RejectedRecordsContributeNothing

\* C12: parse_freeling_candidate returns None for every tag with prefix NP,
\* every tag that matches no known prefix, an empty form, an empty tag and a
\* form containing embedded whitespace (form and tag as strip() leaves
\* them); the records after a rejected one are processed and the rejected
\* record contributes nothing to the mapping
C12_SilentRejectionOfForm ==
    /\ (Decoded /\ (\/ ProperNounTag(DecodedTag)
                    \/ UnknownTag(DecodedTag)
                    \/ DecodedForm = <<>>
                    \/ DecodedTag = <<>>
                    \/ EmbeddedWhitespace(DecodedForm)))
            => dec_result = <<>>
    /\ RejectedRecordsContributeNothing

\* a form with embedded whitespace rejected under a tag the decoder knows
C12_Witness ==
    /\ Decoded
    /\ EmbeddedWhitespace(DecodedForm)
    /\ HasPrefix(DecodedTag, <<"N","C">>)
    /\ ~EmbeddedWhitespace(DecodedTag)
    /\ dec_result = <<>>

====
